---- MODULE Spec2Model ----
(***************************************************************************)
(* Model of the wheelit selection core:                                    *)
(*   - createTeams (src/src/app/spin/page.tsx), the constrained team       *)
(*     partitioner, as a step machine over its placement loop;             *)
(*   - WorkingWheel.getSegmentAngles / determineWinningSegment, the        *)
(*     weighted segment builder and the angle resolver;                    *)
(*   - WheelCanvas.determineWinningSegment                                 *)
(*     (src/src/components/wheel/WheelCanvas.tsx), the second resolver;    *)
(*   - the spin page: performSpin, its completion with handleWheelResult,  *)
(*     resetItems and the mount effect; the multiple-mode pick;            *)
(*   - createTeams on lists at and past its ceiling of 1000 placements;    *)
(*   - getWeightedWinner, getRotationForSegment and performSpin of the     *)
(*     alternative spin page (src/unnamed/part_007);                       *)
(*   - share URLs (src/src/lib/useWheelShare.ts);                          *)
(*   - the setup page (src/src/components/SetupClient.tsx): items, mode,   *)
(*     the number fields and proceedToSpin; the weight editor; the team    *)
(*     constraint editor.                                                  *)
(* Each component has its own specification; Spec is all of them together. *)
(* Angles of WorkingWheel are exact rationals: every angle is kept as a    *)
(* numerator over the common denominator the code divides by.              *)
(***************************************************************************)
EXTENDS Integers, Sequences, FiniteSets, TLC

\* ------------------------------------------------------------------------
\* Bounds of the model
\* ------------------------------------------------------------------------
MaxItems == 4

\* Longest constraint list enumerated pair by pair; the list constraining
\* every pair of the items is enumerated besides.
MaxConstraints == MaxItems \div 2

\* Largest item list dealt on the no-constraints path.
MaxDealItems == 7

\* Program constant: createTeams' attempt ceiling.
maxAttempts == 1000

VARIABLES
    ctPc,            \* position inside createTeams: idle | loop | done
    items,           \* createTeams' items argument (sequence of item ids)
    teamCount,       \* createTeams' teamCount argument
    constraints,     \* createTeams' constraints argument (sequence of records)
    shuffledItems,   \* the shuffled copy the placement loop walks
    loopIndex,       \* position of the for..of loop in shuffledItems
    teams,           \* sequence of teams, each a sequence of item ids
    unassigned,      \* items not yet placed by the constrained loop
    attempts,        \* number of constraint-aware placements made
    bestTeamIndex,   \* result of the last findBestTeam call (0 = none yet)
    constrainedPath, \* TRUE when the call took the constrained path
    mode,            \* WorkingWheel's mode prop
    wheelItems,      \* WorkingWheel's items prop (sequence of weight records)
    segmentAngles,   \* the segments of the current render
    finalRotation,   \* argument of the last determineWinningSegment call
    winner,          \* index of the item it returned (0 = no call yet)
    canvasItems,     \* WheelCanvas' items prop (sequence of weight records)
    canvasRotation,  \* the wheel element's rotation, in whole degrees
    canvasSpinning,  \* WheelCanvas' isSpinning ref
    canvasWinner,    \* index of the item in the last result (0 = none yet)
    config,          \* SpinPage's config: mode, removeAfterSpin, items
    originalItems,   \* SpinPage's originalItems
    currentItems,    \* SpinPage's currentItems, the items prop of the wheel
    selectionPosition, \* SpinPage's selectionPosition
    savedPosition,   \* localStorage "wheelit-selection-position": <<>> or <<n>>
    isSpinning,      \* WorkingWheel's isSpinning
    wheelRotation,   \* WorkingWheel's wheelRotation, in whole degrees
    spin,            \* what the tween of the spin in flight holds
    draws,           \* the random numbers the last performSpin call consumed
    result,          \* the last result handleWheelResult built
    picked,          \* history: ids picked and removed since the last reset or load
    multiItems,      \* MultipleSelectAnimation's items prop (sequence of ids)
    selectCount,     \* config.selectCount of the multiple-mode page
    isSelecting,     \* MultipleSelectAnimation's isSelecting
    winners,         \* the winners performSelection hands to onResult
    selectedItems,   \* selectedItems of the result handleWheelResult builds
    altItems,        \* items prop of the alternative page's wheel
    altRandom,       \* Math.random() * totalWeight of the last getWeightedWinner
    altWinner,       \* index of the item it returned (0 = no call yet)
    altWheel,        \* that wheel's isSpinning, wheelRotation and tween target
    sharedConfig,    \* the configuration generateShareUrl is called with
    shareUrl,        \* the parameters of the URL it returns (<<>> = none yet)
    loadedConfig,    \* what parseConfigFromUrl returns for it (<<>> = none yet)
    setupConfig,     \* SetupClient's config: mode, items, teamCount
    setupClock,      \* Date.now() of the setup page, the source of item ids
    weightEdits,     \* history: number of weight edits made on the setup page
    targetPath       \* where proceedToSpin has navigated to ("" = nowhere yet)

teamVars == <<ctPc, items, teamCount, constraints, shuffledItems, loopIndex,
              teams, unassigned, attempts, bestTeamIndex, constrainedPath>>

wheelVars == <<mode, wheelItems, segmentAngles, finalRotation, winner>>

canvasVars == <<canvasItems, canvasRotation, canvasSpinning, canvasWinner>>

\* The variables of the components modelled after the wheel.
spinVars == <<config, originalItems, currentItems, selectionPosition,
              savedPosition, isSpinning, wheelRotation, spin, draws, result,
              picked>>

multiVars == <<multiItems, selectCount, isSelecting, winners, selectedItems>>

altVars == <<altItems, altRandom, altWinner, altWheel>>

shareVars == <<sharedConfig, shareUrl, loadedConfig>>

setupVars == <<setupConfig, setupClock, weightEdits, targetPath>>

laterVars == <<canvasVars, spinVars, multiVars, altVars, shareVars, setupVars>>

\* What the actions of one component leave unchanged.
exceptCanvas ==
    <<teamVars, wheelVars, spinVars, multiVars, altVars, shareVars, setupVars>>

exceptSpin ==
    <<teamVars, wheelVars, canvasVars, multiVars, altVars, shareVars, setupVars>>

exceptMulti ==
    <<teamVars, wheelVars, canvasVars, spinVars, altVars, shareVars, setupVars>>

exceptShare ==
    <<teamVars, wheelVars, canvasVars, spinVars, multiVars, altVars, setupVars>>

exceptSetup ==
    <<teamVars, wheelVars, canvasVars, spinVars, multiVars, altVars, shareVars>>

exceptAlt ==
    <<teamVars, wheelVars, canvasVars, spinVars, multiVars, shareVars, setupVars>>

vars == <<teamVars, wheelVars, laterVars>>

\* ------------------------------------------------------------------------
\* Helpers on sequences
\* ------------------------------------------------------------------------
Range(s) == {s[i] : i \in DOMAIN s}

RECURSIVE SumSeq(_)
SumSeq(s) == IF s = <<>> THEN 0 ELSE s[1] + SumSeq(Tail(s))

\* Array.prototype.findIndex on ids; 0 stands for -1 (not found).
FindIndex(s, id) ==
    IF \E i \in DOMAIN s : s[i] = id
    THEN CHOOSE i \in DOMAIN s : s[i] = id /\ \A j \in 1..(i - 1) : s[j] # id
    ELSE 0

\* Mutant of Splice: the placed item is not removed from unassigned.
SpliceNothing(s, i) == s

\* Array.prototype.splice(i, 1)
Splice(s, i) == [k \in 1..(Len(s) - 1) |-> IF k < i THEN s[k] ELSE s[k + 1]]

\* [...items].sort(() => Math.random() - 0.5): some permutation of the items.
RECURSIVE Orders(_)
Orders(S) ==
    IF S = {} THEN {<<>>}
    ELSE UNION {{<<x>> \o p : p \in Orders(S \ {x})} : x \in S}

Shuffles(s) == {[i \in DOMAIN s |-> s[p[i]]] : p \in Orders(DOMAIN s)}

\* Array.from({ length: teamCount }, () => [])
EmptyTeams(k) == [t \in 1..k |-> <<>>]

\* ------------------------------------------------------------------------
\* createTeams: the constraint helpers
\* ------------------------------------------------------------------------
\* Mutant of wouldViolateConstraints: only constraints naming the item as
\* item1Id are looked at.
wouldViolateAsItem1Only(cs, tms, item, teamIndex) ==
    \E c \in DOMAIN cs :
        /\ cs[c].item1Id = item
        /\ \E m \in DOMAIN tms[teamIndex] : tms[teamIndex][m] = cs[c].item2Id

\* wouldViolateConstraints(item, teamIndex)
wouldViolateConstraints(cs, tms, item, teamIndex) ==
    \E c \in DOMAIN cs :
        LET isItem1 == cs[c].item1Id = item
            isItem2 == cs[c].item2Id = item
            otherItemId == IF isItem1 THEN cs[c].item2Id ELSE cs[c].item1Id
        IN  /\ (isItem1 \/ isItem2)
            /\ \E m \in DOMAIN tms[teamIndex] : tms[teamIndex][m] = otherItemId

\* Mutant of SmallestOf: the comparison is <=, so a tie goes to the last
\* team of minimum size.
SmallestOfLastTie(tms, candidates) ==
    CHOOSE t \in candidates :
        /\ \A u \in candidates : Len(tms[t]) <= Len(tms[u])
        /\ \A u \in candidates : (u > t) => Len(tms[u]) > Len(tms[t])

\* reduce((smallest, current) => current.size < smallest.size ? current : smallest)
\* over the candidate team indexes in increasing order: the first index of
\* minimum size.
SmallestOf(tms, candidates) ==
    CHOOSE t \in candidates :
        /\ \A u \in candidates : Len(tms[t]) <= Len(tms[u])
        /\ \A u \in candidates : (u < t) => Len(tms[u]) > Len(tms[t])

\* Mutant of findBestTeam: the first non-violating team is taken, not the
\* smallest one.
findFirstValidTeam(cs, tms, item) ==
    LET validTeams == {t \in DOMAIN tms : ~wouldViolateConstraints(cs, tms, item, t)}
    IN  IF validTeams = {}
        THEN SmallestOf(tms, DOMAIN tms)
        ELSE CHOOSE t \in validTeams : \A u \in validTeams : t <= u

\* findBestTeam(item)
findBestTeam(cs, tms, item) ==
    LET validTeams == {t \in DOMAIN tms : ~wouldViolateConstraints(cs, tms, item, t)}
    IN  IF validTeams = {}
        THEN SmallestOf(tms, DOMAIN tms)
        ELSE SmallestOf(tms, validTeams)

\* Mutant of PlaceOne: the item is pushed to the first team.
PlaceInFirstTeam(cs, tms, item) == [tms EXCEPT ![1] = Append(@, item)]

\* The body of the first pass for one item: teams[findBestTeam(item)].push(item)
PlaceOne(cs, tms, item) ==
    [tms EXCEPT ![findBestTeam(cs, tms, item)] = Append(@, item)]

\* Mutant of AssignRemaining: every remaining item goes to the first team.
AssignRemainingToFirst(tms, rest) == [tms EXCEPT ![1] = @ \o rest]

\* The fallback forEach over unassigned: each remaining item goes to the
\* team that is smallest at that moment.
RECURSIVE AssignRemaining(_, _)
AssignRemaining(tms, rest) ==
    IF rest = <<>> THEN tms
    ELSE LET smallestTeamIndex == SmallestOf(tms, DOMAIN tms)
         IN  AssignRemaining(
                 [tms EXCEPT ![smallestTeamIndex] = Append(@, Head(rest))],
                 Tail(rest))

\* Mutant of RoundRobin: the deal wraps one team early
\* (index % (teamCount - 1)).
RECURSIVE RoundRobinShort(_, _, _)
RoundRobinShort(tms, shuffled, index) ==
    IF index >= Len(shuffled) THEN tms
    ELSE RoundRobinShort(
             [tms EXCEPT ![(index % (Len(tms) - 1)) + 1] = Append(@, shuffled[index + 1])],
             shuffled, index + 1)

\* The no-constraints path: shuffled.forEach((item, index) =>
\* teams[index % teamCount].push(item)), with 0-based index.
RECURSIVE RoundRobin(_, _, _)
RoundRobin(tms, shuffled, index) ==
    IF index >= Len(shuffled) THEN tms
    ELSE RoundRobin(
             [tms EXCEPT ![(index % Len(tms)) + 1] = Append(@, shuffled[index + 1])],
             shuffled, index + 1)

\* ------------------------------------------------------------------------
\* Inputs of createTeams
\* ------------------------------------------------------------------------
\* Item ids are 1..n; ids above n are ids of items no longer in the list.
ConstraintIds == 1..(MaxItems + 1)

UnorderedPairs == {p \in ConstraintIds \X ConstraintIds : p[1] < p[2]}

PairRank(p) == p[1] * (MaxItems + 2) + p[2]

\* The constraint on a pair. createTeams reads a constraint symmetrically;
\* which endpoint is stored as item1Id alternates from pair to pair, so that
\* both of its branches (isItem1, isItem2) are taken.
ConstraintOf(p) ==
    IF (p[1] + p[2]) % 2 = 0
    THEN [item1Id |-> p[1], item2Id |-> p[2]]
    ELSE [item1Id |-> p[2], item2Id |-> p[1]]

RECURSIVE ListOf(_)
ListOf(S) ==
    IF S = {} THEN <<>>
    ELSE LET p == CHOOSE q \in S : \A r \in S : PairRank(q) <= PairRank(r)
         IN  <<ConstraintOf(p)>> \o ListOf(S \ {p})

\* Constraint lists as SetupClient.addConstraint builds them (no constraint
\* of an item with itself, at most one per unordered pair): every list of at
\* most MaxConstraints constraints, and the list constraining every pair of
\* the n items.
ConstraintLists(n) ==
    {ListOf(S) : S \in {T \in SUBSET UnorderedPairs : Cardinality(T) <= MaxConstraints}}
        \cup {ListOf({p \in UnorderedPairs : p[2] <= n})}

ItemList(n) == [i \in 1..n |-> i]

\* ------------------------------------------------------------------------
\* createTeams as a step machine
\* ------------------------------------------------------------------------
TeamInit ==
    /\ ctPc = "idle"
    /\ items = <<>>
    /\ teamCount = 0
    /\ constraints = <<>>
    /\ shuffledItems = <<>>
    /\ loopIndex = 0
    /\ teams = <<>>
    /\ unassigned = <<>>
    /\ attempts = 0
    /\ bestTeamIndex = 0
    /\ constrainedPath = FALSE

\* Call with an empty constraint list: shuffle, deal round-robin, return.
CreateTeamsSimple ==
    /\ ctPc = "idle"
    /\ \E n \in 2..MaxDealItems :
        \E sh \in Shuffles(ItemList(n)), k \in 2..n :
            /\ items' = ItemList(n)
            /\ teamCount' = k
            /\ constraints' = <<>>
            /\ shuffledItems' = sh
            /\ teams' = RoundRobin(EmptyTeams(k), sh, 0)
    /\ ctPc' = "done"
    /\ constrainedPath' = FALSE
    /\ UNCHANGED <<loopIndex, unassigned, attempts, bestTeamIndex>>
    /\ UNCHANGED <<wheelVars, laterVars>>

\* Call with a non-empty constraint list: set up teams, unassigned,
\* attempts and the shuffled order, and enter the placement loop.
CreateTeamsConstrained ==
    /\ ctPc = "idle"
    /\ \E n \in 2..MaxItems :
        \E sh \in Shuffles(ItemList(n)), cs \in ConstraintLists(n), k \in 2..n :
            /\ Len(cs) # 0
            /\ items' = ItemList(n)
            /\ teamCount' = k
            /\ constraints' = cs
            /\ shuffledItems' = sh
            /\ teams' = EmptyTeams(k)
            /\ unassigned' = ItemList(n)
    /\ attempts' = 0
    /\ loopIndex' = 1
    /\ ctPc' = "loop"
    /\ constrainedPath' = TRUE
    /\ UNCHANGED bestTeamIndex
    /\ UNCHANGED <<wheelVars, laterVars>>

\* One iteration of the first pass: findBestTeam, push, remove from
\* unassigned, count the attempt.
PlaceItem ==
    /\ ctPc = "loop"
    /\ loopIndex <= Len(shuffledItems)
    /\ attempts < maxAttempts
    /\ LET item == shuffledItems[loopIndex]
           itemIndex == FindIndex(unassigned, item)
       IN  /\ bestTeamIndex' = findBestTeam(constraints, teams, item)
           /\ teams' = PlaceOne(constraints, teams, item)
           /\ unassigned' = IF itemIndex # 0 THEN Splice(unassigned, itemIndex)
                                             ELSE unassigned
    /\ attempts' = attempts + 1
    /\ loopIndex' = loopIndex + 1
    /\ UNCHANGED <<ctPc, items, teamCount, constraints, shuffledItems, constrainedPath>>
    /\ UNCHANGED <<wheelVars, laterVars>>

\* The loop ends (list exhausted, or the attempt ceiling breaks it); the
\* fallback places whatever is still unassigned and the call returns.
LoopEnded == loopIndex > Len(shuffledItems) \/ attempts >= maxAttempts

FinishTeams ==
    /\ ctPc = "loop"
    /\ LoopEnded
    /\ teams' = AssignRemaining(teams, unassigned)
    /\ ctPc' = "done"
    /\ UNCHANGED <<items, teamCount, constraints, shuffledItems, loopIndex,
                   unassigned, attempts, bestTeamIndex, constrainedPath>>
    /\ UNCHANGED <<wheelVars, laterVars>>

TeamNext ==
    \/ CreateTeamsSimple
    \/ CreateTeamsConstrained
    \/ PlaceItem
    \/ FinishTeams

\* ------------------------------------------------------------------------
\* createTeams at its attempt ceiling: item lists about maxAttempts long
\* ------------------------------------------------------------------------
\* Number of items beyond maxAttempts in the longest list.
MaxOverflow == 2

\* Two of the orders the shuffle can give a long list.
Reverse(s) == [i \in DOMAIN s |-> s[Len(s) + 1 - i]]

LongShuffles(s) == {s, Reverse(s)}

\* Constraint lists of a long list of n items: one on the first item and the
\* last but one, and one of two constraints on the ends of the list.
LongConstraintLists(n) ==
    {<<ConstraintOf(<<1, n - 1>>)>>,
     <<ConstraintOf(<<1, 2>>), ConstraintOf(<<n - 1, n>>)>>}

\* Call with a non-empty constraint list and an item list that reaches or
\* exceeds the attempt ceiling.
CreateTeamsLong ==
    /\ ctPc = "idle"
    /\ \E n \in maxAttempts..(maxAttempts + MaxOverflow) :
        \E sh \in LongShuffles(ItemList(n)), cs \in LongConstraintLists(n),
           k \in 2..3 :
            /\ items' = ItemList(n)
            /\ teamCount' = k
            /\ constraints' = cs
            /\ shuffledItems' = sh
            /\ teams' = EmptyTeams(k)
            /\ unassigned' = ItemList(n)
    /\ attempts' = 0
    /\ loopIndex' = 1
    /\ ctPc' = "loop"
    /\ constrainedPath' = TRUE
    /\ UNCHANGED bestTeamIndex
    /\ UNCHANGED <<wheelVars, laterVars>>

LongTeamNext ==
    \/ CreateTeamsLong
    \/ PlaceItem
    \/ FinishTeams

\* ------------------------------------------------------------------------
\* createTeams as one function of its inputs and of the shuffle order
\* ------------------------------------------------------------------------
\* The first pass over shuffledItems from position i on, stopped by the
\* attempt ceiling; returns the teams and the items still unassigned.
RECURSIVE FirstPass(_, _, _, _, _)
FirstPass(cs, tms, un, sh, i) ==
    IF i > Len(sh) \/ (i - 1) >= maxAttempts
    THEN [teams |-> tms, unassigned |-> un]
    ELSE LET itemIndex == FindIndex(un, sh[i])
         IN  FirstPass(cs, PlaceOne(cs, tms, sh[i]),
                       IF itemIndex # 0 THEN Splice(un, itemIndex) ELSE un,
                       sh, i + 1)

createTeams(its, k, cs, sh) ==
    IF Len(cs) = 0
    THEN RoundRobin(EmptyTeams(k), sh, 0)
    ELSE LET pass == FirstPass(cs, EmptyTeams(k), its, sh, 1)
         IN  AssignRemaining(pass.teams, pass.unassigned)

\* ------------------------------------------------------------------------
\* Vocabulary of the team claims
\* ------------------------------------------------------------------------
TeamsDone == ctPc = "done"

\* Number of teams holding the item, counted with multiplicity.
Occurrences(tms, item) ==
    SumSeq([t \in DOMAIN tms |->
                Cardinality({m \in DOMAIN tms[t] : tms[t][m] = item})])

TeamSizes(tms) == {Len(tms[t]) : t \in DOMAIN tms}

SizesWithinOne(tms) == \A a, b \in TeamSizes(tms) : a - b <= 1

\* A constraint is live when both of its endpoints are in the item list.
IsLive(c) == c.item1Id \in Range(items) /\ c.item2Id \in Range(items)

\* Some team holds both endpoints of some constraint.
SomeConstraintBroken(tms) ==
    \E c \in DOMAIN constraints, t \in DOMAIN tms :
        /\ constraints[c].item1Id \in Range(tms[t])
        /\ constraints[c].item2Id \in Range(tms[t])

\* An assignment of the items to teamCount teams, as a function item -> team.
Assignments == [Range(items) -> 1..teamCount]

Respects(f) ==
    \A c \in DOMAIN constraints :
        IsLive(constraints[c]) => f[constraints[c].item1Id] # f[constraints[c].item2Id]

Balanced(f) ==
    \A a, b \in 1..teamCount :
        Cardinality({x \in Range(items) : f[x] = a})
            - Cardinality({x \in Range(items) : f[x] = b}) <= 1

Achievable == \E f \in Assignments : Respects(f)

BalancedAchievable == \E f \in Assignments : Respects(f) /\ Balanced(f)

\* ------------------------------------------------------------------------
\* C1: when createTeams returns there are exactly teamCount teams, every
\* input item is in exactly one team exactly once and nothing else is in
\* any team; and the placement loop always advances towards its end: each
\* iteration places the next shuffled item, and there is always a team to
\* place it in, whatever the constraints.
\* ------------------------------------------------------------------------
C1_CompletePartition ==
    /\ TeamsDone =>
        /\ Len(teams) = teamCount
        /\ \A x \in Range(items) : Occurrences(teams, x) = 1
        /\ \A t \in DOMAIN teams : Range(teams[t]) \subseteq Range(items)
        /\ SumSeq([t \in DOMAIN teams |-> Len(teams[t])]) = Len(items)
    /\ (ctPc = "loop") =>
        /\ Len(teams) = teamCount
        /\ teamCount >= 1
        /\ attempts = loopIndex - 1
        /\ loopIndex <= Len(shuffledItems) + 1
        /\ SumSeq([t \in DOMAIN teams |-> Len(teams[t])]) = attempts
        /\ \A i \in 1..attempts : Occurrences(teams, shuffledItems[i]) = 1

\* The jointly unsatisfiable instance: three items, two teams, all three
\* pairs constrained; the call has returned.
C1_Witness ==
    /\ TeamsDone
    /\ constrainedPath
    /\ Len(items) = 3
    /\ teamCount = 2
    /\ Len(constraints) = 3
    /\ \A c \in DOMAIN constraints : IsLive(constraints[c])
    /\ SomeConstraintBroken(teams)

\* ------------------------------------------------------------------------
\* C2: whenever some assignment of the items to teamCount teams breaks no
\* constraint, the returned teams break no constraint.
\* ------------------------------------------------------------------------
C2_SatisfiedWhenAchievable ==
    (TeamsDone /\ constrainedPath /\ SomeConstraintBroken(teams)) => ~Achievable

\* ------------------------------------------------------------------------
\* C3: whenever some partition breaks no constraint and has team sizes
\* within one of each other, the returned teams have sizes within one.
\* ------------------------------------------------------------------------
C3_BalancedWhenAchievable ==
    (TeamsDone /\ constrainedPath /\ ~SizesWithinOne(teams)) => ~BalancedAchievable

\* ------------------------------------------------------------------------
\* C4: with an empty constraint list the returned team sizes differ by at
\* most one, each being floor or ceil of items.length / teamCount.
\* ------------------------------------------------------------------------
C4_DealBalanced ==
    (TeamsDone /\ Len(constraints) = 0) =>
        /\ SizesWithinOne(teams)
        /\ \A t \in DOMAIN teams :
            \/ Len(teams[t]) = Len(items) \div teamCount
            \/ Len(teams[t]) = (Len(items) + teamCount - 1) \div teamCount

\* Seven items dealt into three teams: sizes 3, 2, 2.
C4_Witness ==
    /\ TeamsDone
    /\ Len(constraints) = 0
    /\ Len(items) = 7
    /\ teamCount = 3
    /\ Len(teams[1]) = 3 /\ Len(teams[2]) = 2 /\ Len(teams[3]) = 2

\* ------------------------------------------------------------------------
\* C5: if every item is constrained against fewer than teamCount distinct
\* other items of the list, the returned teams separate the endpoints of
\* every constraint.
\* ------------------------------------------------------------------------
Partners(x) ==
    {y \in Range(items) \ {x} :
        \E c \in DOMAIN constraints :
            \/ (constraints[c].item1Id = x /\ constraints[c].item2Id = y)
            \/ (constraints[c].item1Id = y /\ constraints[c].item2Id = x)}

FewPartners == \A x \in Range(items) : Cardinality(Partners(x)) < teamCount

C5_FewPartnersSeparated ==
    (TeamsDone /\ constrainedPath /\ FewPartners) => ~SomeConstraintBroken(teams)

\* Items A, B, C, D (1..4), two teams, the single constraint avoid(A, B).
C5_Witness ==
    /\ TeamsDone
    /\ Len(items) = 4
    /\ teamCount = 2
    /\ constraints = <<ConstraintOf(<<1, 2>>)>>
    /\ ~SomeConstraintBroken(teams)

\* ------------------------------------------------------------------------
\* C6: every placement of the constrained loop puts the item in a team of
\* minimum size among the non-violating teams if there is one, and else in
\* a team of minimum size among all teams; exactly that team grows, by
\* exactly that item.
\* ------------------------------------------------------------------------
PlacementRule ==
    LET item == shuffledItems[loopIndex]
        valid == {t \in DOMAIN teams :
                     ~\E c \in DOMAIN constraints, m \in DOMAIN teams[t] :
                         {constraints[c].item1Id, constraints[c].item2Id}
                             = {item, teams[t][m]}}
        pool == IF valid = {} THEN DOMAIN teams ELSE valid
    IN  \E t \in pool :
            /\ \A u \in pool : Len(teams[t]) <= Len(teams[u])
            /\ teams' = [teams EXCEPT ![t] = Append(@, item)]

C6_PlacementRule ==
    [][(ctPc = "loop" /\ ctPc' = "loop") => PlacementRule]_vars

\* A placement has been made for which every team violated a constraint.
C6_Witness ==
    /\ ctPc = "loop"
    /\ attempts >= 1
    /\ SomeConstraintBroken(teams)

\* ------------------------------------------------------------------------
\* C7: constraints naming an item absent from the list are inert: the
\* returned teams are those createTeams returns, for the same shuffle
\* order, with these constraints removed; when every constraint is inert
\* that is the round-robin deal of the no-constraints path.
\* ------------------------------------------------------------------------
LiveConstraints == SelectSeq(constraints, IsLive)

C7_InertConstraints ==
    (TeamsDone /\ constrainedPath) =>
        /\ teams = createTeams(items, teamCount, LiveConstraints, shuffledItems)
        /\ (Len(LiveConstraints) = 0) =>
              \A i \in DOMAIN shuffledItems :
                  shuffledItems[i] \in Range(teams[((i - 1) % teamCount) + 1])

\* A returned call whose list mixes a live and an inert constraint.
C7_Witness ==
    /\ TeamsDone
    /\ constrainedPath
    /\ Len(LiveConstraints) >= 1
    /\ Len(LiveConstraints) < Len(constraints)

\* ------------------------------------------------------------------------
\* WorkingWheel: segments and the angle resolver
\* ------------------------------------------------------------------------
\* Largest item list put on the wheel.
MaxWheelItems == 3

\* Weights are percentages with one decimal (the weight input has step 0.1),
\* kept in tenths of a percent: 5 is 0.5%, 1000 is 100%.
WeightValues == {0, 5, 250, 500, 750, 1000}

\* An item of the wheel: its weight, and whether the weight field is set.
WheelItems ==
    {[weight |-> w, hasWeight |-> TRUE] : w \in WeightValues}
        \cup {[weight |-> 0, hasWeight |-> FALSE]}

WheelItemLists == UNION {[1..n -> WheelItems] : n \in 1..MaxWheelItems}

Modes == {"simple", "teams", "weighted", "multiple"}

\* Rotations in whole degrees, negative and beyond one turn.
Rotations ==
    {0 - 720, 0 - 450, 0 - 360, 0 - 270, 0 - 180, 0 - 120, 0 - 90, 0 - 18, 0 - 1,
     0, 1, 18, 90, 120, 180, 240, 270, 342, 359, 360, 450, 540, 720, 2070}

\* item.weight || 0, in tenths of a percent
WeightOrZero(item) == IF item.hasWeight THEN item.weight ELSE 0

\* JavaScript's %: the remainder takes the sign of the dividend.
JsRem(a, b) == IF a >= 0 THEN a % b ELSE 0 - ((0 - a) % b)

Max(a, b) == IF a >= b THEN a ELSE b

\* The number every angle of a render is divided by: Math.max(totalPercentage,
\* 1) in weighted mode (total and 1 both in tenths of a percent), items.length
\* otherwise. An angle field a of a segment stands for a / Denominator degrees.
Denominator(m, its) ==
    IF m = "weighted"
    THEN Max(SumSeq([i \in DOMAIN its |-> WeightOrZero(its[i])]), 10)
    ELSE Len(its)

\* getSegmentAngles(): start/angle/end of every item's segment, as numerators
\* over Denominator(m, its).
RECURSIVE WeightedSegments(_, _, _)
WeightedSegments(its, i, currentAngle) ==
    IF i > Len(its) THEN <<>>
    ELSE LET angle == WeightOrZero(its[i]) * 360
         IN  <<[start |-> currentAngle, angle |-> angle, end |-> currentAngle + angle]>>
                 \o WeightedSegments(its, i + 1, currentAngle + angle)

getSegmentAngles(m, its) ==
    IF m = "weighted"
    THEN WeightedSegments(its, 1, 0)
    ELSE [index \in DOMAIN its |->
            [start |-> (index - 1) * 360, angle |-> 360, end |-> index * 360]]

\* Mutant of PointerAngle: the pointer angle is not wrapped, 360 -
\* normalizedRotation without the final % 360.
PointerAngleNoWrap(rotation) ==
    LET normalizedRotation == JsRem(JsRem(rotation, 360) + 360, 360)
    IN  360 - normalizedRotation

\* pointerAngle of determineWinningSegment, in whole degrees
PointerAngle(rotation) ==
    LET normalizedRotation == JsRem(JsRem(rotation, 360) + 360, 360)
    IN  JsRem(360 - normalizedRotation, 360)

\* Mutant of determineWinningSegment: segments closed at their end and open
\* at their start (start < pointerAngle <= end).
determineWinningSegmentClosedEnd(m, its, segs, rotation) ==
    LET p == PointerAngle(rotation) * Denominator(m, its)
        hits == {i \in DOMAIN segs : p > segs[i].start /\ p <= segs[i].end}
    IN  IF hits # {}
        THEN CHOOSE i \in hits : \A j \in hits : i <= j
        ELSE Len(its)

\* determineWinningSegment(finalRotation): the index of the first segment with
\* start <= pointerAngle < end, else the last index.
determineWinningSegment(m, its, segs, rotation) ==
    LET p == PointerAngle(rotation) * Denominator(m, its)
        hits == {i \in DOMAIN segs : p >= segs[i].start /\ p < segs[i].end}
    IN  IF hits # {}
        THEN CHOOSE i \in hits : \A j \in hits : i <= j
        ELSE Len(its)

WheelInit ==
    /\ mode = "simple"
    /\ wheelItems = <<>>
    /\ segmentAngles = <<>>
    /\ finalRotation = 0
    /\ winner = 0

\* The wheel is rendered with a mode and an item list; the render computes
\* segmentAngles.
RenderWheel ==
    /\ wheelItems = <<>>
    /\ \E m \in Modes, its \in WheelItemLists :
        /\ mode' = m
        /\ wheelItems' = its
        /\ segmentAngles' = getSegmentAngles(m, its)
    /\ UNCHANGED <<finalRotation, winner>>
    /\ UNCHANGED <<teamVars, laterVars>>

\* determineWinningSegment is called with a final rotation.
ResolveWinner ==
    /\ wheelItems # <<>>
    /\ \E r \in Rotations :
        /\ finalRotation' = r
        /\ winner' = determineWinningSegment(mode, wheelItems, segmentAngles, r)
    /\ UNCHANGED <<mode, wheelItems, segmentAngles>>
    /\ UNCHANGED <<teamVars, laterVars>>

WheelNext ==
    \/ RenderWheel
    \/ ResolveWinner

\* ------------------------------------------------------------------------
\* WheelCanvas.determineWinningSegment and performSpin
\* (src/src/components/wheel/WheelCanvas.tsx)
\* ------------------------------------------------------------------------
\* Largest rotation the wheel element is turned to.
MaxCanvasRotation == 4000

\* weight / totalWeight is a rounded quotient. The model rounds it to the
\* nearest multiple of 1 / Significand, a short significand standing for the
\* 53 bits of a double, so that the rounding shows on short lists.
Significand == 2 ^ 8

\* item.weight || 1, in tenths of a percent: a weight of 0 counts as 1 too.
WeightOrOne(item) ==
    IF item.hasWeight /\ item.weight # 0 THEN item.weight ELSE 10

\* a / b rounded to the nearest integer
RoundDiv(a, b) == (2 * a + b) \div (2 * b)

CanvasTotalWeight(its) == SumSeq([i \in DOMAIN its |-> WeightOrOne(its[i])])

\* segmentAngle of item i, as a numerator over Significand:
\* (weight / totalWeight) * 360
CanvasSegmentAngle(its, i) ==
    RoundDiv(WeightOrOne(its[i]) * Significand, CanvasTotalWeight(its)) * 360

\* currentAngle when the loop reaches item i
CanvasCurrentAngle(its, i) ==
    SumSeq([j \in 1..(i - 1) |-> CanvasSegmentAngle(its, j)])

\* pointerAngle of WheelCanvas, in whole degrees: the pointer is a quarter
\* turn away from the spin page's.
CanvasPointerAngle(rotation) ==
    LET normalizedRotation == JsRem(JsRem(rotation, 360) + 360, 360)
    IN  JsRem(360 - normalizedRotation + 90, 360)

\* The items whose segment contains the pointer angle.
CanvasHits(its, rotation) ==
    LET p == CanvasPointerAngle(rotation) * Significand
    IN  {i \in DOMAIN its :
            /\ p >= CanvasCurrentAngle(its, i)
            /\ p < CanvasCurrentAngle(its, i) + CanvasSegmentAngle(its, i)}

\* WheelCanvas.determineWinningSegment(finalRotation): the index of the first
\* item whose segment contains the pointer angle, else items[0].
canvasDetermineWinningSegment(its, rotation) ==
    LET hits == CanvasHits(its, rotation)
    IN  IF hits # {}
        THEN CHOOSE i \in hits : \A j \in hits : i <= j
        ELSE 1

\* Math.random() * (maxRotation - minRotation) added to minRotation, in whole
\* degrees between 1440 and 2880.
CanvasTurns == {1440, 1529, 1530, 1531, 1620, 1710, 1800, 2070, 2879}

CanvasInit ==
    /\ canvasItems = <<>>
    /\ canvasRotation = 0
    /\ canvasSpinning = FALSE
    /\ canvasWinner = 0

\* WheelCanvas is rendered with an item list.
RenderCanvas ==
    /\ canvasItems = <<>>
    /\ canvasItems' \in WheelItemLists
    /\ UNCHANGED <<canvasRotation, canvasSpinning, canvasWinner>>
    /\ UNCHANGED exceptCanvas

\* performSpin: the tween turns the wheel element by a random angle.
CanvasPerformSpin ==
    /\ ~canvasSpinning
    /\ Len(canvasItems) >= 2
    /\ \E turn \in CanvasTurns :
        /\ canvasRotation + turn <= MaxCanvasRotation
        /\ canvasRotation' = canvasRotation + turn
    /\ canvasSpinning' = TRUE
    /\ UNCHANGED <<canvasItems, canvasWinner>>
    /\ UNCHANGED exceptCanvas

\* The tween's onComplete: the winner is resolved from the element's rotation.
CanvasSpinComplete ==
    /\ canvasSpinning
    /\ canvasWinner' = canvasDetermineWinningSegment(canvasItems, canvasRotation)
    /\ canvasSpinning' = FALSE
    /\ UNCHANGED <<canvasItems, canvasRotation>>
    /\ UNCHANGED exceptCanvas

CanvasNext ==
    \/ RenderCanvas
    \/ CanvasPerformSpin
    \/ CanvasSpinComplete

\* ------------------------------------------------------------------------
\* SpinPage with WorkingWheel: performSpin, the tween's onComplete with
\* handleWheelResult, resetItems and the mount effect
\* (src/src/app/spin/page.tsx)
\* ------------------------------------------------------------------------
\* Largest item list of a spin page configuration.
MaxSpinItems == 3

\* performSpin is not followed beyond this wheelRotation ...
MaxWheelRotation == 3600

\* ... nor beyond this selectionPosition.
MaxPosition == 4

\* Program constant: the ceiling of the candidate loop of performSpin.
cheatMaxAttempts == 1000

\* Item names, as far as name.toLowerCase().includes(...) tells them apart.
Names == {"alice", "gatien", "raphael"}

\* The wheel modes of the spin page that end in the default branch of
\* handleWheelResult.
SpinModes == {"simple", "weighted"}

\* Items of a configuration: without weight in simple mode, with weights
\* totalling 100% in weighted mode (the setup page lets no other total
\* through); ids are the positions in the configured list.
SpinItemLists(m) ==
    LET ws == IF m = "weighted" THEN {250, 500, 1000} ELSE {0}
        all == UNION {
          {[i \in 1..n |-> [id |-> i, name |-> nm[i], weight |-> w[i],
                            hasWeight |-> (m = "weighted")]] :
              nm \in [1..n -> Names], w \in [1..n -> ws]} :
          n \in 1..MaxSpinItems}
    IN  {its \in all :
            m = "weighted" =>
                SumSeq([i \in DOMAIN its |-> its[i].weight]) = 1000}

Configs ==
    UNION {{[mode |-> m, removeAfterSpin |-> r, items |-> its] :
               r \in BOOLEAN, its \in SpinItemLists(m)} : m \in SpinModes}

NoConfig == [mode |-> "simple", removeAfterSpin |-> FALSE, items |-> <<>>]

\* The pairs of Math.random() values one rotation is made of, in quarters:
\* <<u1, u2>> stands for the draws u1 / 4 and u2 / 4.
RandomPairs == {0, 1} \X (0..3)

\* (5 + Math.random() * 5) * 360 + Math.random() * 360
NormalTurn(d) == 1800 + d[1] * 450 + d[2] * 90

\* (5 + Math.random() * 3) * 360 + Math.random() * 360
CheatTurn(d) == 1800 + d[1] * 270 + d[2] * 90

\* The tween of a spin holds the final rotation and the winner, and, through
\* onResult, the selectionPosition of the render performSpin was called in;
\* items is the list the winner was resolved on.
NoSpin == [items |-> <<>>, winner |-> 0, finalRotation |-> 0,
           selectionPosition |-> 0]

\* path is the branch of performSpin that set the final rotation: normal,
\* cheat (a candidate landed) or fallback (no candidate landed).
NoDraws == [first |-> <<0, 0>>, redrawn |-> FALSE, path |-> "none"]

NoResult == [id |-> 0, position |-> 0]

\* items.find(item => item.name.toLowerCase().includes(name)): the index of
\* the first such item, 0 when there is none.
FindName(its, name) ==
    LET found == {i \in DOMAIN its : its[i].name = name}
    IN  IF found = {} THEN 0 ELSE CHOOSE i \in found : \A j \in found : i <= j

\* cheatWinner of performSpin, as an index into items (0 = null).
CheatWinner(m, remove, position, its) ==
    IF m = "simple" /\ remove /\ position >= 1
    THEN IF position = 1 THEN FindName(its, "gatien")
         ELSE IF position = 2 THEN FindName(its, "raphael")
         ELSE 0
    ELSE 0

\* determineWinningSegment(rotation) on the wheel's current render.
WinnerAt(m, its, rotation) ==
    determineWinningSegment(m, its, getSegmentAngles(m, its), rotation)

SpinInit ==
    /\ config = NoConfig
    /\ originalItems = <<>>
    /\ currentItems = <<>>
    /\ selectionPosition = 0
    /\ savedPosition = <<>>
    /\ isSpinning = FALSE
    /\ wheelRotation = 0
    /\ spin = NoSpin
    /\ draws = NoDraws
    /\ result = NoResult
    /\ picked = {}

\* The spin page is opened from the setup page, which has saved the
\* configuration and removed the saved position; the mount effect loads it.
OpenSpinPage ==
    /\ config = NoConfig
    /\ \E c \in Configs :
        /\ config' = c
        /\ originalItems' = c.items
        /\ currentItems' = c.items
    /\ UNCHANGED <<selectionPosition, savedPosition, isSpinning, wheelRotation,
                   spin, draws, result, picked>>
    /\ UNCHANGED exceptSpin

\* The spin page is loaded again: every state starts afresh and the mount
\* effect reads the configuration and the saved position back.
ReloadSpinPage ==
    /\ config # NoConfig
    /\ originalItems' = config.items
    /\ currentItems' = config.items
    /\ selectionPosition' =
          IF config.removeAfterSpin /\ savedPosition # <<>>
          THEN savedPosition[1] ELSE 0
    /\ isSpinning' = FALSE
    /\ wheelRotation' = 0
    /\ spin' = NoSpin
    /\ draws' = NoDraws
    /\ result' = NoResult
    /\ picked' = {}
    /\ UNCHANGED <<config, savedPosition>>
    /\ UNCHANGED exceptSpin

\* The state performSpin leaves for a spin to finalRotation won by item w.
StartSpin(rotation, w, first, redrawn, path) ==
    /\ isSpinning' = TRUE
    /\ spin' = [items |-> currentItems, winner |-> currentItems[w].id,
                finalRotation |-> rotation,
                selectionPosition |-> selectionPosition]
    /\ draws' = [first |-> first, redrawn |-> redrawn, path |-> path]

\* performSpin on the normal path: one rotation is drawn and resolved.
NormalSpin ==
    \E d \in RandomPairs :
        LET rotation == wheelRotation + NormalTurn(d)
        IN  StartSpin(rotation,
                      WinnerAt(config.mode, currentItems, rotation), d, FALSE,
                      "normal")

\* Mutant of CandidateLands: every candidate is taken, untested.
CandidateTaken(target, d) == TRUE

\* testWinner.id === cheatWinner.id for the candidate rotation drawn as d
CandidateLands(target, d) ==
    WinnerAt(config.mode, currentItems, wheelRotation + CheatTurn(d)) = target

\* performSpin with a cheatWinner: candidates are drawn until one resolves to
\* it, cheatMaxAttempts times at most; then a rotation is drawn as on the
\* normal path. first is the first candidate drawn.
CheatSpin(target) ==
    \E first \in RandomPairs :
        \/ /\ CandidateLands(target, first)
           /\ StartSpin(wheelRotation + CheatTurn(first), target,
                        first, FALSE, "cheat")
        \/ /\ ~CandidateLands(target, first)
           /\ cheatMaxAttempts > 1
           /\ \E later \in RandomPairs :
                /\ CandidateLands(target, later)
                /\ StartSpin(wheelRotation + CheatTurn(later), target,
                             first, TRUE, "cheat")
        \/ /\ \A d \in {first} : ~CandidateLands(target, d)
           /\ \E d \in RandomPairs :
                LET rotation == wheelRotation + NormalTurn(d)
                IN  StartSpin(rotation,
                              WinnerAt(config.mode, currentItems, rotation),
                              first, TRUE, "fallback")

\* Mutant of SpinAccepted: a request is accepted while a spin is in flight.
SpinAcceptedInFlight == currentItems # <<>>

\* The guard of performSpin: if (isSpinning || items.length === 0) return
SpinAccepted == ~isSpinning /\ currentItems # <<>>

performSpin ==
    /\ SpinAccepted
    /\ wheelRotation <= MaxWheelRotation
    /\ selectionPosition < MaxPosition
    /\ LET target == CheatWinner(config.mode, config.removeAfterSpin,
                                 selectionPosition, currentItems)
       IN  IF target # 0 THEN CheatSpin(target) ELSE NormalSpin
    /\ UNCHANGED <<config, originalItems, currentItems, selectionPosition,
                   savedPosition, wheelRotation, result, picked>>
    /\ UNCHANGED exceptSpin

\* Mutant of RemoveItem: the head of the list is removed, whichever item was
\* picked.
RemoveHead(its, id) == Tail(its)

\* prev.filter(item => item.id !== selectedItem.id)
RemoveItem(its, id) == SelectSeq(its, LAMBDA item : item.id # id)

\* The tween's onComplete: the wheel comes to rest and handleWheelResult (of
\* the render performSpin was called in) records the pick.
SpinComplete ==
    /\ isSpinning
    /\ wheelRotation' = spin.finalRotation
    /\ isSpinning' = FALSE
    /\ IF config.mode = "simple" /\ config.removeAfterSpin
       THEN LET newPosition == spin.selectionPosition + 1
            IN  /\ result' = [id |-> spin.winner, position |-> newPosition]
                /\ selectionPosition' = newPosition
                /\ savedPosition' = <<newPosition>>
                /\ currentItems' = RemoveItem(currentItems, spin.winner)
                /\ picked' = picked \cup {spin.winner}
       ELSE /\ result' = [id |-> spin.winner, position |-> 0]
            /\ UNCHANGED <<selectionPosition, savedPosition, currentItems,
                           picked>>
    /\ spin' = NoSpin
    /\ draws' = NoDraws
    /\ UNCHANGED <<config, originalItems>>
    /\ UNCHANGED exceptSpin

\* resetItems, behind the Reset All Items button.
resetItems ==
    /\ config.mode = "simple"
    /\ config.removeAfterSpin
    /\ Len(currentItems) # Len(originalItems)
    /\ currentItems' = originalItems
    /\ result' = NoResult
    /\ selectionPosition' = 0
    /\ savedPosition' = <<>>
    /\ picked' = {}
    /\ UNCHANGED <<config, originalItems, isSpinning, wheelRotation, spin, draws>>
    /\ UNCHANGED exceptSpin

SpinNext ==
    \/ OpenSpinPage
    \/ ReloadSpinPage
    \/ performSpin
    \/ SpinComplete
    \/ resetItems

\* ------------------------------------------------------------------------
\* Multiple mode: MultipleSelectAnimation.performSelection and the multiple
\* branch of handleWheelResult (src/src/app/spin/page.tsx)
\* ------------------------------------------------------------------------
\* Largest item list of the multiple-mode page.
MaxMultiItems == 3

Min(a, b) == IF a <= b THEN a ELSE b

\* Mutant of Slice: the element at index end is taken too.
SliceInclusive(s, start, end) == SubSeq(s, start + 1, Min(end + 1, Len(s)))

\* s.slice(start, end) for 0 <= start and 0 <= end
Slice(s, start, end) == SubSeq(s, start + 1, Min(end, Len(s)))

\* config.selectCount || 1
SelectCountOrOne == IF selectCount = 0 THEN 1 ELSE selectCount

MultiInit ==
    /\ multiItems = <<>>
    /\ selectCount = 0
    /\ isSelecting = FALSE
    /\ winners = <<>>
    /\ selectedItems = <<>>

\* The multiple-mode page is rendered with its items and its configured
\* count, which may be absent (0) or exceed the list.
RenderMultiple ==
    /\ multiItems = <<>>
    /\ \E n \in 1..MaxMultiItems :
        /\ multiItems' = ItemList(n)
        /\ selectCount' \in 0..(n + 1)
    /\ UNCHANGED <<isSelecting, winners, selectedItems>>
    /\ UNCHANGED exceptMulti

\* performSelection is accepted and starts its shuffle rounds.
StartSelection ==
    /\ ~isSelecting
    /\ multiItems # <<>>
    /\ isSelecting' = TRUE
    /\ UNCHANGED <<multiItems, selectCount, winners, selectedItems>>
    /\ UNCHANGED exceptMulti

\* performSelection ends: the final shuffle gives the winners it hands to
\* onResult, and handleWheelResult picks again from a shuffle of its own.
FinishSelection ==
    /\ isSelecting
    /\ \E finalShuffled \in Shuffles(multiItems) :
        winners' = Slice(finalShuffled, 0, SelectCountOrOne)
    /\ \E shuffled \in Shuffles(multiItems) :
        selectedItems' = Slice(shuffled, 0, SelectCountOrOne)
    /\ isSelecting' = FALSE
    /\ UNCHANGED <<multiItems, selectCount>>
    /\ UNCHANGED exceptMulti

MultiNext ==
    \/ RenderMultiple
    \/ StartSelection
    \/ FinishSelection

\* ------------------------------------------------------------------------
\* The alternative spin page: getWeightedWinner (src/unnamed/part_007)
\* ------------------------------------------------------------------------
\* totalWeight of getWeightedWinner, in tenths of a percent
AltTotalWeight(its) == SumSeq([i \in DOMAIN its |-> WeightOrOne(its[i])])

\* The weight left in random after items 1..i have been subtracted from r.
AltRemaining(its, r, i) ==
    r - SumSeq([j \in 1..i |-> WeightOrOne(its[j])])

\* getWeightedWinner() with Math.random() * totalWeight = r: the index of the
\* first item that brings random to 0 or below, else the last index.
getWeightedWinner(its, r) ==
    LET stops == {i \in DOMAIN its : AltRemaining(its, r, i) <= 0}
    IN  IF stops # {}
        THEN CHOOSE i \in stops : \A j \in stops : i <= j
        ELSE Len(its)

\* Values of Math.random() * totalWeight, in tenths of a percent: the ends of
\* the range, and every cumulative weight with its two neighbours.
AltRandoms(its) ==
    LET marks == {SumSeq([j \in 1..i |-> WeightOrOne(its[j])]) : i \in DOMAIN its}
    IN  {r \in {0, AltTotalWeight(its) - 1}
                  \cup marks \cup {m - 1 : m \in marks} \cup {m + 1 : m \in marks} :
            0 <= r /\ r < AltTotalWeight(its)}

\* performSpin is not followed from a wheelRotation beyond this, in degrees.
MaxAltRotation == 2500

\* The rotations of this wheel are kept as numerators over AltScale(its), so
\* that segmentAngle = 360 / items.length and its half are whole numbers.
AltScale(its) == 2 * Len(its)

AltFullTurn(its) == 360 * AltScale(its)

\* segmentAngle, as a numerator over AltScale(its)
AltSegmentAngle(its) == AltFullTurn(its) \div Len(its)

\* determineWinningSegment(finalRotation) of this wheel: equal segments,
\* whatever the mode; the index of the item returned.
altDetermineWinningSegment(its, rotation) ==
    LET full == AltFullTurn(its)
        normalizedRotation == JsRem(JsRem(rotation, full) + full, full)
        pointerAngle == JsRem(full - normalizedRotation, full)
    IN  ((pointerAngle \div AltSegmentAngle(its)) % Len(its)) + 1

\* baseRotations * 360 with baseRotations = 5 + Math.random() * 5, in
\* degrees: 5, 6, 6.25 and 7.5 turns.
AltBaseTurns == {1800, 2160, 2250, 2700}

\* getRotationForSegment(targetSegment) with the wheel at rotation and
\* baseRotations * 360 = baseTurn degrees; segmentIndex is 0-based.
getRotationForSegment(its, rotation, target, baseTurn) ==
    LET segmentIndex == target - 1
        targetAngle == segmentIndex * AltSegmentAngle(its)
                           + AltSegmentAngle(its) \div 2
        currentRotation == JsRem(rotation, AltFullTurn(its))
        rotationNeeded ==
            JsRem(AltFullTurn(its) - targetAngle + currentRotation,
                  AltFullTurn(its))
    IN  rotation + baseTurn * AltScale(its) + rotationNeeded

AltIdle == [isSpinning |-> FALSE, wheelRotation |-> 0, finalRotation |-> 0]

AltInit ==
    /\ altItems = <<>>
    /\ altRandom = 0
    /\ altWinner = 0
    /\ altWheel = AltIdle

\* The wheel of the alternative page is rendered, in weighted mode, with an
\* item list.
RenderAltWheel ==
    /\ altItems = <<>>
    /\ altItems' \in WheelItemLists
    /\ UNCHANGED <<altRandom, altWinner, altWheel>>
    /\ UNCHANGED exceptAlt

\* performSpin in weighted mode: the winner is drawn with getWeightedWinner
\* and the tween is started towards getRotationForSegment(winner).
DrawWeightedWinner ==
    /\ ~altWheel.isSpinning
    /\ altItems # <<>>
    /\ altWheel.wheelRotation <= MaxAltRotation * AltScale(altItems)
    /\ \E r \in AltRandoms(altItems), baseTurn \in AltBaseTurns :
        LET w == getWeightedWinner(altItems, r)
        IN  /\ altRandom' = r
            /\ altWinner' = w
            /\ altWheel' =
                  [altWheel EXCEPT
                     !.isSpinning = TRUE,
                     !.finalRotation =
                        getRotationForSegment(altItems, altWheel.wheelRotation,
                                              w, baseTurn)]
    /\ UNCHANGED altItems
    /\ UNCHANGED exceptAlt

\* The tween's onComplete: the wheel rests at finalRotation and the winner
\* drawn is handed to onResult.
AltSpinComplete ==
    /\ altWheel.isSpinning
    /\ altWheel' = [altWheel EXCEPT !.isSpinning = FALSE,
                                    !.wheelRotation = altWheel.finalRotation]
    /\ UNCHANGED <<altItems, altRandom, altWinner>>
    /\ UNCHANGED exceptAlt

AltNext ==
    \/ RenderAltWheel
    \/ DrawWeightedWinner
    \/ AltSpinComplete

\* ------------------------------------------------------------------------
\* Share URLs: generateShareUrl and parseConfigFromUrl
\* (src/src/lib/useWheelShare.ts)
\* ------------------------------------------------------------------------
\* Largest item list of a shared configuration.
MaxShareItems == 3

\* Longest constraint list of a shared configuration.
MaxShareConstraints == 2

\* Item ids are strings built from Date.now(): <<t>> stands for the id
\* `${t}` that addItem gives, <<t, index>> for the id `${t}-${index}` that
\* parseConfigFromUrl gives.
AddedIds(n) == [i \in 1..n |-> <<i>>]

ParsedIds(n, now) == [i \in 1..n |-> <<now, i - 1>>]

\* The item lists of the configurations shared: built item by item on the
\* setup page, or loaded there from an earlier share URL.
ShareItemLists ==
    UNION {{[i \in 1..n |-> [id |-> ids[i], name |-> i, weight |-> w]] :
               ids \in {AddedIds(n), ParsedIds(n, 1)}, w \in {0, 500}} :
           n \in 2..MaxShareItems}

\* The constraint lists of a configuration: constraints between two
\* different items of the list, at most one per ordered pair.
ShareConstraintLists(its) ==
    LET pairs == {p \in (DOMAIN its) \X (DOMAIN its) : p[1] # p[2]}
        made(ps) == [k \in DOMAIN ps |->
                       [id |-> k, item1Id |-> its[ps[k][1]].id,
                        item2Id |-> its[ps[k][2]].id, type |-> "avoid"]]
    IN  {made(ps) : ps \in UNION {{q \in [1..m -> pairs] :
                                      \A a, b \in 1..m : a # b => q[a] # q[b]} :
                                  m \in 0..MaxShareConstraints}}

\* Date.now() when the URL is parsed: later than every id of the configuration.
ParseTimes == (MaxShareItems + 1)..(MaxShareItems + 2)

\* The URL parameters hold the items as name and weight only, and the
\* constraints whole when there are any; JSON.stringify, URLSearchParams and
\* JSON.parse carry these values unchanged.
generateShareUrl(c) ==
    [items |-> [i \in DOMAIN c.items |->
                   [name |-> c.items[i].name, weight |-> c.items[i].weight]],
     hasTeamConstraints |-> (c.teamConstraints # <<>>),
     teamConstraints |-> c.teamConstraints]

\* parseConfigFromUrl at time now: the items have no id and get a new one;
\* the constraints keep their id and their item ids.
parseConfigFromUrl(url, now) ==
    [items |-> [i \in DOMAIN url.items |->
                   [id |-> <<now, i - 1>>, name |-> url.items[i].name,
                    weight |-> url.items[i].weight]],
     teamConstraints |->
        IF url.hasTeamConstraints THEN url.teamConstraints ELSE <<>>]

ShareInit ==
    /\ sharedConfig = <<>>
    /\ shareUrl = <<>>
    /\ loadedConfig = <<>>

\* A teams configuration is set up.
SetUpShared ==
    /\ sharedConfig = <<>>
    /\ \E its \in ShareItemLists :
        \E cs \in ShareConstraintLists(its) :
            sharedConfig' = [items |-> its, teamConstraints |-> cs]
    /\ UNCHANGED <<shareUrl, loadedConfig>>
    /\ UNCHANGED exceptShare

\* The share URL of the configuration is generated.
GenerateUrl ==
    /\ sharedConfig # <<>>
    /\ shareUrl = <<>>
    /\ shareUrl' = generateShareUrl(sharedConfig)
    /\ UNCHANGED <<sharedConfig, loadedConfig>>
    /\ UNCHANGED exceptShare

\* The setup page is opened with the URL.
ParseUrl ==
    /\ shareUrl # <<>>
    /\ \E now \in ParseTimes :
        loadedConfig' = parseConfigFromUrl(shareUrl, now)
    /\ UNCHANGED <<sharedConfig, shareUrl>>
    /\ UNCHANGED exceptShare

ShareNext ==
    \/ SetUpShared
    \/ GenerateUrl
    \/ ParseUrl

\* ------------------------------------------------------------------------
\* The setup page: addItem, removeItem, the mode cards, the team-count field,
\* getValidationStatus and proceedToSpin (src/src/components/SetupClient.tsx)
\* ------------------------------------------------------------------------
\* Largest item list built on the setup page.
MaxSetupItems == 3

\* Number of items ever added on the setup page.
MaxSetupClock == 4

\* Largest number typed in the team-count field, with or without a sign.
MaxTyped == 4

\* What the team-count field can hold: nothing that reads as a number, an
\* integer, or a number with a fractional part (whole being what stands
\* before the decimal point).
TeamCountTexts ==
    {[kind |-> "empty", whole |-> 0]}
        \cup {[kind |-> k, whole |-> v] :
                 k \in {"integer", "decimal"}, v \in (0 - MaxTyped)..MaxTyped}

\* parseInt(e.target.value) || 2: parseInt reads the digits before the
\* decimal point and gives NaN for the empty string; NaN and 0 become 2.
ParseIntOrTwo(text) ==
    IF text.kind = "empty" \/ text.whole = 0 THEN 2 ELSE text.whole

\* getTotalPercentage(), in tenths of a percent
getTotalPercentage(its) ==
    SumSeq([i \in DOMAIN its |-> WeightOrZero(its[i])])

Abs(a) == IF a >= 0 THEN a ELSE 0 - a

\* getValidationStatus().isValid
getValidationStatus(c) ==
    IF Len(c.items) = 0 THEN FALSE
    ELSE IF c.mode = "teams" /\ Len(c.items) < 2 THEN FALSE
    ELSE IF c.mode = "teams"
            /\ (IF c.teamCount = 0 THEN 2 ELSE c.teamCount) > Len(c.items)
         THEN FALSE
    ELSE IF c.mode = "multiple"
            /\ (IF c.selectCount = 0 THEN 1 ELSE c.selectCount) > Len(c.items)
         THEN FALSE
    ELSE IF c.mode = "weighted" /\ Abs(getTotalPercentage(c.items) - 1000) > 1
         THEN FALSE
    ELSE TRUE

canProceed == getValidationStatus(setupConfig)

SetupInit ==
    /\ setupConfig = [mode |-> "simple", items |-> <<>>, teamCount |-> 2,
                      selectCount |-> 1, teamConstraints |-> <<>>]
    /\ setupClock = 0
    /\ weightEdits = 0
    /\ targetPath = ""

\* addItem with a name typed: the new item gets Date.now() as its id and, in
\* weighted mode, a weight of 10%. Followed up to maxItems items and up to
\* the clock value maxClock.
addItemUpTo(maxItems, maxClock) ==
    /\ targetPath = ""
    /\ Len(setupConfig.items) < maxItems
    /\ setupClock < maxClock
    /\ setupClock' = setupClock + 1
    /\ setupConfig' =
          [setupConfig EXCEPT !.items =
              Append(@, [id |-> setupClock + 1,
                         weight |-> IF setupConfig.mode = "weighted"
                                    THEN 100 ELSE 0,
                         hasWeight |-> setupConfig.mode = "weighted",
                         locked |-> FALSE])]
    /\ UNCHANGED <<weightEdits, targetPath>>
    /\ UNCHANGED exceptSetup

addItem == addItemUpTo(MaxSetupItems, MaxSetupClock)

\* removeItem(id) for an item of the list
removeItem ==
    /\ targetPath = ""
    /\ \E i \in DOMAIN setupConfig.items :
        setupConfig' =
            [setupConfig EXCEPT !.items =
                SelectSeq(@, LAMBDA item : item.id # setupConfig.items[i].id)]
    /\ UNCHANGED <<setupClock, weightEdits, targetPath>>
    /\ UNCHANGED exceptSetup

\* A mode card is clicked, one of the cards ms.
SelectModeAmong(ms) ==
    /\ targetPath = ""
    /\ \E m \in ms : setupConfig' = [setupConfig EXCEPT !.mode = m]
    /\ UNCHANGED <<setupClock, weightEdits, targetPath>>
    /\ UNCHANGED exceptSetup

SelectMode == SelectModeAmong(Modes)

\* The team-count field, shown in teams mode, is edited.
EnterTeamCount ==
    /\ targetPath = ""
    /\ setupConfig.mode = "teams"
    /\ \E text \in TeamCountTexts :
        setupConfig' = [setupConfig EXCEPT !.teamCount = ParseIntOrTwo(text)]
    /\ UNCHANGED <<setupClock, weightEdits, targetPath>>
    /\ UNCHANGED exceptSetup

\* parseInt(e.target.value) || 1 of the items-to-select field: NaN and 0
\* become 1, a sign is kept, a decimal is cut at the point.
ParseIntOrOne(text) ==
    IF text.kind = "empty" \/ text.whole = 0 THEN 1 ELSE text.whole

\* The items-to-select field, shown in multiple mode, is edited.
EnterSelectCount ==
    /\ targetPath = ""
    /\ setupConfig.mode = "multiple"
    /\ \E text \in TeamCountTexts :
        setupConfig' = [setupConfig EXCEPT !.selectCount = ParseIntOrOne(text)]
    /\ UNCHANGED <<setupClock, weightEdits, targetPath>>
    /\ UNCHANGED exceptSetup

\* Number of items of shuffled.slice(0, config.selectCount || 1) for a list
\* of n items: a negative end counts from the end of the list, an end past
\* the list stops at the list's end.
SelectedCount(n, count) ==
    LET end == IF count = 0 THEN 1 ELSE count
    IN  IF end < 0 THEN Max(n + end, 0) ELSE Min(end, n)

\* proceedToSpin, behind the Start Spinning button.
proceedToSpin ==
    /\ targetPath = ""
    /\ canProceed
    /\ targetPath' = IF setupConfig.mode = "teams" THEN "/teams" ELSE "/spin"
    /\ UNCHANGED <<setupConfig, setupClock, weightEdits>>
    /\ UNCHANGED exceptSetup

\* Largest item list whose weights are edited.
MaxWeightedItems == 5

\* Number of weight edits (weights typed, locks toggled, distributions)
\* followed.
MaxWeightEdits == 3

\* What is typed in a weight field, in tenths of a percent: a negative
\* number, 99.8 and 150.
WeightTexts == {0 - 5, 998, 1500}

\* Math.max(0, Math.min(100, weight)), in tenths of a percent
ClampWeight(weight) == Max(0, Min(1000, weight))

\* updateItemWeight(id, parseFloat(e.target.value) || 0), from the weight
\* field of an item, which weighted mode shows and a lock disables.
updateItemWeight ==
    /\ targetPath = ""
    /\ setupConfig.mode = "weighted"
    /\ weightEdits < MaxWeightEdits
    /\ \E i \in DOMAIN setupConfig.items, weight \in WeightTexts :
        LET its == setupConfig.items
        IN  /\ ~its[i].locked
            /\ setupConfig' =
                  [setupConfig EXCEPT !.items =
                      [j \in DOMAIN its |->
                          IF its[j].id = its[i].id
                          THEN [its[j] EXCEPT !.weight = ClampWeight(weight),
                                              !.hasWeight = TRUE]
                          ELSE its[j]]]
    /\ weightEdits' = weightEdits + 1
    /\ UNCHANGED <<setupClock, targetPath>>
    /\ UNCHANGED exceptSetup

\* toggleItemLock(id), from the lock button of an item in weighted mode
toggleItemLock ==
    /\ targetPath = ""
    /\ setupConfig.mode = "weighted"
    /\ weightEdits < MaxWeightEdits
    /\ \E i \in DOMAIN setupConfig.items :
        LET its == setupConfig.items
        IN  setupConfig' =
                [setupConfig EXCEPT !.items =
                    [j \in DOMAIN its |->
                        IF its[j].id = its[i].id
                        THEN [its[j] EXCEPT !.locked = ~its[j].locked]
                        ELSE its[j]]]
    /\ weightEdits' = weightEdits + 1
    /\ UNCHANGED <<setupClock, targetPath>>
    /\ UNCHANGED exceptSetup

\* Mutant of Distributed: the locked items share in the distribution too.
DistributedOverAll(its, tieUp) ==
    LET equalPercentage == RoundDiv(1000, Len(its))
        remainder == 1000 - equalPercentage * Len(its)
    IN  [j \in DOMAIN its |->
            [its[j] EXCEPT !.weight = IF j = 1 THEN equalPercentage + remainder
                                              ELSE equalPercentage,
                           !.hasWeight = TRUE]]

\* The items distributePercentagesEqually leaves. Weights are doubles:
\* Math.round of a quotient that is exactly halfway between two tenths goes
\* up or down with the rounding error of the quotient; tieUp tells which.
Distributed(its, tieUp) ==
    LET unlockedItems == SelectSeq(its, LAMBDA item : ~item.locked)
        lockedPercentage ==
            SumSeq([j \in DOMAIN its |->
                       IF its[j].locked THEN WeightOrZero(its[j]) ELSE 0])
        remainingPercentage == 1000 - lockedPercentage
        n == Len(unlockedItems)
        isTie == (2 * remainingPercentage) % (2 * n) = n
        equalPercentage ==
            IF isTie /\ ~tieUp THEN RoundDiv(remainingPercentage, n) - 1
            ELSE RoundDiv(remainingPercentage, n)
        remainder == remainingPercentage - equalPercentage * n
    IN  IF Len(unlockedItems) = 0 \/ remainingPercentage <= 0 THEN its
        ELSE [j \in DOMAIN its |->
                IF its[j].locked THEN its[j]
                ELSE [its[j] EXCEPT
                        !.weight = IF unlockedItems[1].id = its[j].id
                                   THEN equalPercentage + remainder
                                   ELSE equalPercentage,
                        !.hasWeight = TRUE]]

\* distributePercentagesEqually, behind the Distribute Remaining button,
\* which weighted mode shows and which needs an unlocked item.
distributePercentagesEqually ==
    /\ targetPath = ""
    /\ setupConfig.mode = "weighted"
    /\ weightEdits < MaxWeightEdits
    /\ \E i \in DOMAIN setupConfig.items : ~setupConfig.items[i].locked
    /\ \E tieUp \in BOOLEAN :
        setupConfig' =
            [setupConfig EXCEPT !.items = Distributed(@, tieUp)]
    /\ weightEdits' = weightEdits + 1
    /\ UNCHANGED <<setupClock, targetPath>>
    /\ UNCHANGED exceptSetup

\* addItem on the longer lists of the weight editing
addWeightedItem == addItemUpTo(MaxWeightedItems, MaxWeightedItems)

\* The Weighted mode card is clicked.
SelectWeighted == SelectModeAmong({"weighted"})

\* The weight editing of the setup page.
WeightsNext ==
    \/ addWeightedItem
    \/ SelectWeighted
    \/ updateItemWeight
    \/ toggleItemLock
    \/ distributePercentagesEqually

\* Largest item list constraints are set up on.
MaxConstraintItems == 3

\* Number of items and constraints ever added while constraints are set up.
MaxConstraintClock == 6

\* Mutant of WithConstraint: an existing constraint is looked for in the
\* order given only.
WithConstraintOneWay(cs, item1Id, item2Id, now) ==
    LET exists == \E c \in DOMAIN cs :
                      cs[c].item1Id = item1Id /\ cs[c].item2Id = item2Id
    IN  IF item1Id = item2Id \/ exists THEN cs
        ELSE Append(cs, [id |-> now, item1Id |-> item1Id, item2Id |-> item2Id,
                         type |-> "avoid"])

\* The constraint list addConstraint(item1Id, item2Id) leaves at time now.
WithConstraint(cs, item1Id, item2Id, now) ==
    LET exists == \E c \in DOMAIN cs :
                      \/ (cs[c].item1Id = item1Id /\ cs[c].item2Id = item2Id)
                      \/ (cs[c].item1Id = item2Id /\ cs[c].item2Id = item1Id)
    IN  IF item1Id = item2Id \/ exists THEN cs
        ELSE Append(cs, [id |-> now, item1Id |-> item1Id, item2Id |-> item2Id,
                         type |-> "avoid"])

\* The constraint list removeConstraint(constraintId) leaves.
WithoutConstraint(cs, constraintId) ==
    SelectSeq(cs, LAMBDA constraint : constraint.id # constraintId)

\* addConstraint(item1Id, item2Id) on two items of the list, from the
\* constraints panel, which teams mode shows for two items or more. The new
\* constraint gets Date.now() as its id; the clock moves on with every call.
addConstraint ==
    /\ targetPath = ""
    /\ setupConfig.mode = "teams"
    /\ Len(setupConfig.items) >= 2
    /\ setupClock < MaxConstraintClock
    /\ \E i, j \in DOMAIN setupConfig.items :
        setupConfig' =
            [setupConfig EXCEPT !.teamConstraints =
                WithConstraint(@, setupConfig.items[i].id,
                               setupConfig.items[j].id, setupClock + 1)]
    /\ setupClock' = setupClock + 1
    /\ UNCHANGED <<weightEdits, targetPath>>
    /\ UNCHANGED exceptSetup

\* removeConstraint(constraint.id) for a constraint of the list
removeConstraint ==
    /\ targetPath = ""
    /\ setupConfig.mode = "teams"
    /\ Len(setupConfig.items) >= 2
    /\ \E c \in DOMAIN setupConfig.teamConstraints :
        setupConfig' =
            [setupConfig EXCEPT !.teamConstraints =
                WithoutConstraint(@, setupConfig.teamConstraints[c].id)]
    /\ UNCHANGED <<setupClock, weightEdits, targetPath>>
    /\ UNCHANGED exceptSetup

\* addItem while constraints are set up
addConstrainedItem == addItemUpTo(MaxConstraintItems, MaxConstraintClock)

\* The Teams mode card is clicked.
SelectTeams == SelectModeAmong({"teams"})

\* The constraint editing of the setup page.
ConstraintsNext ==
    \/ addConstrainedItem
    \/ SelectTeams
    \/ addConstraint
    \/ removeConstraint

SetupNext ==
    \/ addItem
    \/ removeItem
    \/ SelectMode
    \/ EnterTeamCount
    \/ EnterSelectCount
    \/ proceedToSpin

\* ------------------------------------------------------------------------
\* Specifications
\* ------------------------------------------------------------------------
Init == TeamInit /\ WheelInit /\ CanvasInit /\ SpinInit /\ MultiInit /\ AltInit
        /\ ShareInit /\ SetupInit

Next == TeamNext \/ LongTeamNext \/ WheelNext \/ CanvasNext \/ SpinNext \/ MultiNext \/ AltNext
        \/ ShareNext \/ SetupNext \/ WeightsNext \/ ConstraintsNext

Spec == Init /\ [][Next]_vars

\* createTeams alone
SpecTeams == Init /\ [][TeamNext]_vars

\* createTeams on lists about maxAttempts long
SpecLongTeams == Init /\ [][LongTeamNext]_vars

\* the wheel alone
SpecWheel == Init /\ [][WheelNext]_vars

\* WheelCanvas alone
SpecCanvas == Init /\ [][CanvasNext]_vars

\* the spin page alone
SpecSpinPage == Init /\ [][SpinNext]_vars

\* the multiple-mode page alone
SpecMultiple == Init /\ [][MultiNext]_vars

\* the alternative spin page alone
SpecAltPage == Init /\ [][AltNext]_vars

\* share URLs alone
SpecShare == Init /\ [][ShareNext]_vars

\* the setup page alone
SpecSetup == Init /\ [][SetupNext]_vars

\* the constraint editing of the setup page alone
SpecConstraints == Init /\ [][ConstraintsNext]_vars

\* the weight editing of the setup page alone
SpecWeights == Init /\ [][WeightsNext]_vars

\* ------------------------------------------------------------------------
\* Vocabulary of the wheel claims
\* ------------------------------------------------------------------------
Rendered == wheelItems # <<>>

Resolved == winner # 0

FullTurn == 360 * Denominator(mode, wheelItems)

\* The pointer angle of the last call, on the scale of the segment fields.
Pointer == PointerAngle(finalRotation) * Denominator(mode, wheelItems)

NonEmpty(seg) == seg.start < seg.end

\* ------------------------------------------------------------------------
\* C8: getSegmentAngles returns one segment per item, the first starting at
\* 0, each ending where the next starts, the last ending at 360, the angles
\* summing to 360 -- for any mode and any non-negative weights.
\* ------------------------------------------------------------------------
C8_SegmentsCoverTurn ==
    Rendered =>
        /\ Len(segmentAngles) = Len(wheelItems)
        /\ segmentAngles[1].start = 0
        /\ \A i \in 1..(Len(segmentAngles) - 1) :
              segmentAngles[i].end = segmentAngles[i + 1].start
        /\ segmentAngles[Len(segmentAngles)].end = FullTurn
        /\ SumSeq([i \in DOMAIN segmentAngles |-> segmentAngles[i].angle]) = FullTurn

\* ------------------------------------------------------------------------
\* C9: in weighted mode determineWinningSegment never returns an item whose
\* weight is 0 or absent.
\* ------------------------------------------------------------------------
C9_ZeroWeightNeverWins ==
    (Resolved /\ mode = "weighted") => WeightOrZero(wheelItems[winner]) > 0

\* ------------------------------------------------------------------------
\* C10: segments are half-open [start, end): a pointer angle inside a
\* non-empty segment, its start included, resolves to that segment's item;
\* a pointer angle equal to the boundary between two non-empty segments
\* resolves to the one that starts there and not to the one that ends there.
\* ------------------------------------------------------------------------
C10_HalfOpenSegments ==
    Resolved =>
        /\ \A i \in DOMAIN segmentAngles :
              (/\ NonEmpty(segmentAngles[i])
               /\ segmentAngles[i].start <= Pointer
               /\ Pointer < segmentAngles[i].end) => winner = i
        /\ \A i, j \in DOMAIN segmentAngles :
              (/\ NonEmpty(segmentAngles[i])
               /\ NonEmpty(segmentAngles[j])
               /\ segmentAngles[i].end = Pointer
               /\ segmentAngles[j].start = Pointer) => (winner = j /\ winner # i)

\* The pointer sits exactly on the boundary between two non-empty segments
\* of a weighted wheel, and the call has returned the later one.
C10_Witness ==
    /\ Resolved
    /\ mode = "weighted"
    /\ winner >= 2
    /\ segmentAngles[winner].start = Pointer
    /\ \E i \in DOMAIN segmentAngles :
          /\ i < winner
          /\ NonEmpty(segmentAngles[i])
          /\ segmentAngles[i].end = Pointer

\* ------------------------------------------------------------------------
\* Vocabulary of the WheelCanvas claims
\* ------------------------------------------------------------------------
CanvasResolved == canvasWinner # 0 /\ ~canvasSpinning

\* ------------------------------------------------------------------------
\* C11: when no segment contains the pointer angle, the resolver returns the
\* last item of the list; here for WheelCanvas.determineWinningSegment.
\* ------------------------------------------------------------------------
C11_FallbackIsLastItem ==
    (CanvasResolved /\ CanvasHits(canvasItems, canvasRotation) = {})
        => canvasWinner = Len(canvasItems)

\* ------------------------------------------------------------------------
\* C12: for every integer rotation, negative or beyond one turn,
\* determineWinningSegment computes a pointer angle in [0, 360); the winner
\* is the same for the rotation plus any whole number of turns; a rotation
\* that is a whole number of turns gives the item whose segment starts at 0.
\* ------------------------------------------------------------------------
WholeTurns == {360 * k : k \in (0 - 3)..3}

C12_RotationPeriodic ==
    Resolved =>
        /\ PointerAngle(finalRotation) \in 0..359
        /\ \A t \in WholeTurns :
              /\ PointerAngle(finalRotation + t) = PointerAngle(finalRotation)
              /\ determineWinningSegment(mode, wheelItems, segmentAngles,
                                         finalRotation + t) = winner
        /\ (finalRotation \in WholeTurns) => segmentAngles[winner].start = 0

\* A rotation of more than one turn backwards has been resolved to an item
\* that is not the last of a list of several.
C12_Witness ==
    /\ Resolved
    /\ finalRotation < 0 - 360
    /\ PointerAngle(finalRotation) > 0
    /\ Len(wheelItems) >= 2
    /\ winner < Len(wheelItems)

\* ------------------------------------------------------------------------
\* Vocabulary of the spin page claims
\* ------------------------------------------------------------------------
Removing == config.mode = "simple" /\ config.removeAfterSpin

Ids(its) == {its[i].id : i \in DOMAIN its}

\* This step is the completion of a spin.
PickCompletes == isSpinning /\ ~isSpinning' /\ result'.id # 0

\* ------------------------------------------------------------------------
\* C13: the pick is input-driven. For the same random draws, weights and
\* mode, performSpin selects the same winner (by list index) whatever the
\* item names and the selectionPosition -- the winner the first rotation
\* drawn resolves to -- and it never rejects or redraws a rotation.
\* ------------------------------------------------------------------------
C13_InputDrivenPick ==
    isSpinning =>
        /\ ~draws.redrawn
        /\ spin.winner =
              spin.items[WinnerAt(config.mode, spin.items,
                                  wheelRotation + NormalTurn(draws.first))].id

\* ------------------------------------------------------------------------
\* C14: in simple mode with removeAfterSpin, across completed spins, resets
\* and reloads, a pick made on a wheel that k items have been removed from
\* carries position k + 1.
\* ------------------------------------------------------------------------
C14_PositionIsRank ==
    [][(PickCompletes /\ Removing) =>
          result'.position = (Len(originalItems) - Len(spin.items)) + 1]_vars

\* ------------------------------------------------------------------------
\* C15: in simple mode with removeAfterSpin, a completed pick removes the
\* picked item from the wheel, which shrinks by exactly one item; the item
\* stays off the wheel, so that no spin can pick it, until a reset or a
\* reload; no item is picked twice between two resets.
\* ------------------------------------------------------------------------
C15_PickedItemsLeaveTheWheel ==
    /\ [](Removing => picked \cap Ids(currentItems) = {})
    /\ []((Removing /\ isSpinning /\ spin.items = currentItems)
             => spin.winner \notin picked)
    /\ [][(PickCompletes /\ Removing) =>
             /\ spin.winner \notin picked
             /\ spin.winner \in Ids(currentItems)
             /\ spin.winner \notin Ids(currentItems')
             /\ Len(currentItems') = Len(currentItems) - 1
             /\ Ids(currentItems') = Ids(currentItems) \ {spin.winner}]_vars

\* Two picks have completed since the last reset: two items are off a wheel
\* of three.
C15_Witness ==
    /\ Removing
    /\ ~isSpinning
    /\ Len(originalItems) = 3
    /\ Cardinality(picked) = 2
    /\ Len(currentItems) = 1
    /\ result.position = 2

\* ------------------------------------------------------------------------
\* C16: for items with unique ids and a selection count N with
\* 1 <= N <= items.length, the multiple-mode pick returns exactly N items
\* with pairwise distinct ids, all members of the input list, and leaves the
\* input list unchanged; here for the winners of performSelection and for the
\* selectedItems of handleWheelResult.
\* ------------------------------------------------------------------------
IsPickOf(sel, its, n) ==
    /\ Len(sel) = n
    /\ \A i, j \in DOMAIN sel : i # j => sel[i] # sel[j]
    /\ Range(sel) \subseteq Range(its)

C16_MultiplePickDistinct ==
    /\ [](((selectedItems # <<>> \/ winners # <<>>)
             /\ selectCount >= 1 /\ selectCount <= Len(multiItems))
            => /\ IsPickOf(selectedItems, multiItems, selectCount)
               /\ IsPickOf(winners, multiItems, selectCount))
    /\ [][isSelecting => multiItems' = multiItems]_vars

\* Two of three items have been picked, and not the first two of the list.
C16_Witness ==
    /\ Len(multiItems) = 3
    /\ selectCount = 2
    /\ ~isSelecting
    /\ Len(selectedItems) = 2
    /\ selectedItems # SubSeq(multiItems, 1, 2)

\* ------------------------------------------------------------------------
\* Vocabulary of the getWeightedWinner claims
\* ------------------------------------------------------------------------
Drawn == altWinner # 0

\* The weight of an item as the claims count it: an absent weight is 1%.
StatedWeight(item) == IF item.hasWeight THEN item.weight ELSE 10

StatedCumulative(its, i) == SumSeq([j \in 1..i |-> StatedWeight(its[j])])

\* ------------------------------------------------------------------------
\* C17: getWeightedWinner never returns an item whose weight is 0, for any
\* draw, whenever at least one item has a positive weight.
\* ------------------------------------------------------------------------
C17_ZeroWeightNeverDrawn ==
    (Drawn /\ \E i \in DOMAIN altItems :
                  altItems[i].hasWeight /\ altItems[i].weight > 0)
        => ~(altItems[altWinner].hasWeight /\ altItems[altWinner].weight = 0)

\* ------------------------------------------------------------------------
\* C18: for every draw r with 0 <= r < totalWeight (absent weight counted as
\* 1), getWeightedWinner returns the first item in list order whose
\* cumulative weight is >= r, the last item if there is none, and always a
\* member of the list.
\* ------------------------------------------------------------------------
C18_FirstCumulativeAtLeastDraw ==
    (Drawn /\ altRandom < StatedCumulative(altItems, Len(altItems))) =>
        LET reach == {i \in DOMAIN altItems :
                         StatedCumulative(altItems, i) >= altRandom}
        IN  /\ altWinner \in DOMAIN altItems
            /\ altWinner = IF reach # {}
                           THEN CHOOSE i \in reach : \A j \in reach : i <= j
                           ELSE Len(altItems)

\* ------------------------------------------------------------------------
\* C19: team constraints are preserved by a share URL. Every constraint of
\* the configuration parsed from generateShareUrl(config) has an item1Id and
\* an item2Id that are ids of loaded items, naming the same two items (by
\* place in the list) as the constraint of config it comes from.
\* ------------------------------------------------------------------------
\* The place in its of the item with this id, 0 when no item has it.
PlaceOf(its, id) ==
    LET at == {i \in DOMAIN its : its[i].id = id}
    IN  IF at = {} THEN 0 ELSE CHOOSE i \in at : TRUE

C19_ConstraintsSurviveShare ==
    loadedConfig # <<>> =>
        /\ Len(loadedConfig.teamConstraints) = Len(sharedConfig.teamConstraints)
        /\ \A k \in DOMAIN loadedConfig.teamConstraints :
              LET c == sharedConfig.teamConstraints[k]
                  d == loadedConfig.teamConstraints[k]
              IN  /\ PlaceOf(loadedConfig.items, d.item1Id) # 0
                  /\ PlaceOf(loadedConfig.items, d.item2Id) # 0
                  /\ PlaceOf(loadedConfig.items, d.item1Id)
                        = PlaceOf(sharedConfig.items, c.item1Id)
                  /\ PlaceOf(loadedConfig.items, d.item2Id)
                        = PlaceOf(sharedConfig.items, c.item2Id)

\* ------------------------------------------------------------------------
\* C20: after any sequence of setup edits (add item, remove item, change
\* mode, enter any number in the team-count field), proceedToSpin navigates
\* in teams mode only if 2 <= teamCount <= items.length.
\* ------------------------------------------------------------------------
C20_TeamCountValidated ==
    targetPath = "/teams" =>
        /\ 2 <= setupConfig.teamCount
        /\ setupConfig.teamCount <= Len(setupConfig.items)

\* ------------------------------------------------------------------------
\* C21: the constrained loop makes at most maxAttempts placements; the items
\* it leaves are the items not placed, in original list order, and the
\* fallback appends each of them, in that order, to a team that is smallest
\* at that moment, whatever the constraints; the result holds every item
\* exactly once; with items.length <= maxAttempts the fallback places nothing.
\* ------------------------------------------------------------------------
\* final is tms after each item of rest, in order, was appended to a team of
\* minimum size at that moment.
RECURSIVE FallbackRule(_, _, _)
FallbackRule(tms, rest, final) ==
    IF rest = <<>> THEN final = tms
    ELSE \E t \in DOMAIN tms :
            /\ \A u \in DOMAIN tms : Len(tms[t]) <= Len(tms[u])
            /\ FallbackRule([tms EXCEPT ![t] = Append(@, Head(rest))],
                            Tail(rest), final)

\* The items the first pass has not placed, in original list order.
LeftOver ==
    LET placed == {shuffledItems[i] : i \in 1..attempts}
    IN  SelectSeq(items, LAMBDA x : x \notin placed)

C21_CeilingFallsThrough ==
    /\ [](attempts <= maxAttempts)
    /\ []((ctPc = "loop" /\ LoopEnded) =>
            /\ unassigned = LeftOver
            /\ Len(unassigned) = Max(Len(items) - maxAttempts, 0))
    /\ [](TeamsDone =>
            /\ SumSeq([t \in DOMAIN teams |-> Len(teams[t])]) = Len(items)
            /\ UNION {Range(teams[t]) : t \in DOMAIN teams} = Range(items))
    /\ [][(ctPc = "loop" /\ ctPc' = "done") =>
             /\ FallbackRule(teams, unassigned, teams')
             /\ (Len(items) <= maxAttempts) => teams' = teams]_vars

\* The ceiling stopped the loop two items short, and the fallback put one of
\* them in a team holding the item it is constrained against.
C21_Witness ==
    /\ TeamsDone
    /\ attempts = maxAttempts
    /\ Len(unassigned) = 2
    /\ \E c \in DOMAIN constraints, t \in DOMAIN teams :
          /\ constraints[c].item1Id \in Range(teams[t])
          /\ constraints[c].item2Id \in Range(teams[t])
          /\ {constraints[c].item1Id, constraints[c].item2Id}
                \cap Range(unassigned) # {}

\* ------------------------------------------------------------------------
\* Vocabulary of the weight claims
\* ------------------------------------------------------------------------
SetupItems == setupConfig.items

LockedTotal(its) ==
    SumSeq([j \in DOMAIN its |-> IF its[j].locked THEN WeightOrZero(its[j]) ELSE 0])

WeightTotal(its) == SumSeq([j \in DOMAIN its |-> WeightOrZero(its[j])])

C23_WeightsWithinRange ==
    \A j \in DOMAIN SetupItems :
        SetupItems[j].hasWeight =>
            (SetupItems[j].weight >= 0 /\ SetupItems[j].weight <= 1000)

\* ------------------------------------------------------------------------
\* C24: starting from an empty constraint list, after any sequence of
\* addConstraint and removeConstraint calls the list holds no constraint of
\* an item with itself and at most one constraint per unordered pair of
\* items; addConstraint(a, b) leaves the list unchanged when a = b or when a
\* constraint on {a, b} exists in either order; removeConstraint(id) removes
\* exactly the constraint with that id.
\* ------------------------------------------------------------------------
SetupConstraints == setupConfig.teamConstraints

PairOf(c) == {c.item1Id, c.item2Id}

\* s without its k-th element
Without(s, k) == [n \in 1..(Len(s) - 1) |-> IF n < k THEN s[n] ELSE s[n + 1]]

C24_ConstraintListWellFormed ==
    /\ [](/\ \A c \in DOMAIN SetupConstraints :
                SetupConstraints[c].item1Id # SetupConstraints[c].item2Id
          /\ \A c, d \in DOMAIN SetupConstraints :
                c # d => PairOf(SetupConstraints[c]) # PairOf(SetupConstraints[d])
          /\ \A a, b \in Ids(SetupItems) :
                (a = b \/ \E c \in DOMAIN SetupConstraints :
                              PairOf(SetupConstraints[c]) = {a, b})
                    => WithConstraint(SetupConstraints, a, b, setupClock + 1)
                           = SetupConstraints
          /\ \A c \in DOMAIN SetupConstraints :
                WithoutConstraint(SetupConstraints, SetupConstraints[c].id)
                    = Without(SetupConstraints, c))
    /\ [][(setupConfig'.teamConstraints # SetupConstraints) =>
             \/ \E c \in DOMAIN SetupConstraints :
                   setupConfig'.teamConstraints = Without(SetupConstraints, c)
             \/ /\ Len(setupConfig'.teamConstraints) = Len(SetupConstraints) + 1
                /\ SubSeq(setupConfig'.teamConstraints, 1, Len(SetupConstraints))
                      = SetupConstraints]_vars

\* Every pair of three items is constrained, after a constraint was removed
\* and added again the other way round.
C24_Witness ==
    /\ Len(SetupItems) = 3
    /\ Len(SetupConstraints) = 3
    /\ setupClock = MaxConstraintClock
    /\ \E c \in DOMAIN SetupConstraints :
          SetupConstraints[c].item1Id > SetupConstraints[c].item2Id

\* ------------------------------------------------------------------------
\* C25: in weighted mode of the alternative page the rotation
\* getRotationForSegment(winner) returns lands on the winner: for every
\* wheelRotation, item list and winner drawn, determineWinningSegment of the
\* final rotation is that winner.
\* ------------------------------------------------------------------------
C25_RotationLandsOnWinner ==
    altWheel.isSpinning =>
        altDetermineWinningSegment(altItems, altWheel.finalRotation) = altWinner

\* ------------------------------------------------------------------------
\* C26: if Reset All Items is pressed while a remove-after-pick spin is in
\* flight, the spin's completion does not undo the reset: the recorded pick
\* has position 1, the persisted position is 1, and the wheel holds all
\* original items except that pick.
\* ------------------------------------------------------------------------
\* A reset has been made since the spin in flight started.
ResetInFlight ==
    /\ isSpinning
    /\ selectionPosition = 0
    /\ spin.selectionPosition # 0

C26_ResetSurvivesCompletion ==
    [][(PickCompletes /\ Removing /\ ResetInFlight) =>
          /\ result'.position = 1
          /\ savedPosition' = <<1>>
          /\ selectionPosition' = 1
          /\ Ids(currentItems') = Ids(originalItems) \ {result'.id}]_vars

\* ------------------------------------------------------------------------
\* C27: for every accepted spin, on the normal path, on the forced-pick path
\* and on the forced-pick fallback, the winner delivered to onResult is the
\* item determineWinningSegment returns for the final rotation the wheel is
\* animated to, on the item list as it was when the spin started.
\* ------------------------------------------------------------------------
\* The id of the item under the pointer at the end of the spin in flight.
UnderPointer ==
    spin.items[WinnerAt(config.mode, spin.items, spin.finalRotation)].id

C27_WinnerIsUnderPointer ==
    /\ [](isSpinning => spin.winner = UnderPointer)
    /\ [][PickCompletes =>
             /\ result'.id = UnderPointer
             /\ wheelRotation' = spin.finalRotation]_vars

\* A spin is in flight on the fallback of the forced pick: no candidate
\* landed on gatien, and the rotation drawn then resolves to another item.
C27_Witness ==
    /\ isSpinning
    /\ draws.path = "fallback"
    /\ selectionPosition = 1
    /\ FindName(spin.items, "gatien") # 0
    /\ spin.winner # spin.items[FindName(spin.items, "gatien")].id

\* ------------------------------------------------------------------------
\* C30: WorkingWheel accepts a spin request only when no spin is in flight
\* and the wheel holds at least one item; while a spin is in flight no other
\* is accepted; every accepted spin, when its animation completes, delivers
\* exactly one result, its winner, and returns the wheel to idle; no result
\* is delivered without an accepted spin.
\* ------------------------------------------------------------------------
\* This step is a page load: the wheel is mounted afresh.
PageLoads == wheelRotation' = 0 /\ spin' = NoSpin /\ result' = NoResult

C30_OneResultPerAcceptedSpin ==
    /\ [](isSpinning <=> spin # NoSpin)
    /\ [][(~isSpinning /\ isSpinning') =>
             /\ currentItems # <<>>
             /\ spin'.items = currentItems
             /\ spin'.winner \in Ids(currentItems)
             /\ UNCHANGED <<currentItems, result, wheelRotation>>]_vars
    /\ [][(isSpinning /\ isSpinning') => spin' = spin]_vars
    /\ [][(isSpinning /\ ~isSpinning') =>
             \/ PageLoads
             \/ /\ result'.id = spin.winner
                /\ wheelRotation' = spin.finalRotation]_vars
    /\ [][(result'.id # 0 /\ result' # result) =>
             (isSpinning /\ ~isSpinning' /\ result'.id = spin.winner)]_vars

\* The only item of a remove-after-pick wheel has been picked: the wheel is
\* idle and empty, and takes no spin.
C30_Witness ==
    /\ ~isSpinning
    /\ Removing
    /\ Len(originalItems) = 1
    /\ currentItems = <<>>
    /\ result.id = originalItems[1].id
    /\ wheelRotation >= 1800
    /\ ~ENABLED performSpin

\* ------------------------------------------------------------------------
\* C28: for every teamCount with 2 <= teamCount <= items.length, every
\* constraint list and every shuffle order, no team createTeams returns is
\* empty, on the no-constraints path and on the constrained path alike.
\* ------------------------------------------------------------------------
C28_NoEmptyTeam ==
    (TeamsDone /\ 2 <= teamCount /\ teamCount <= Len(items)) =>
        \A t \in DOMAIN teams : Len(teams[t]) >= 1

\* As many teams as items, on the constrained path with every constraint
\* live: each team holds exactly one item.
C28_Witness ==
    /\ TeamsDone
    /\ constrainedPath
    /\ Len(items) = 4
    /\ teamCount = 4
    /\ Len(LiveConstraints) = Len(constraints)
    /\ \A t \in DOMAIN teams : Len(teams[t]) = 1

\* ------------------------------------------------------------------------
\* C29: after any sequence of setup edits (add item, remove item, change
\* mode, enter any number in the items-to-select field), proceedToSpin
\* navigates in multiple mode only if 1 <= selectCount <= items.length, so
\* that the multiple-mode pick of the spin page returns exactly selectCount
\* items.
\* ------------------------------------------------------------------------
C29_SelectCountValidated ==
    (targetPath = "/spin" /\ setupConfig.mode = "multiple") =>
        /\ 1 <= setupConfig.selectCount
        /\ setupConfig.selectCount <= Len(setupConfig.items)
        /\ SelectedCount(Len(setupConfig.items), setupConfig.selectCount)
              = setupConfig.selectCount

====
